---- MODULE Spec2Model ----
(***************************************************************************)
(* useRelationMultiple: the relation-editing state layer.  It reconciles   *)
(* the persisted value of a relational field (o2m, m2m, m2a) with staged,  *)
(* uncommitted edits (create / update / delete lists) and derives the      *)
(* merged display view, the counts and the sort maximum.                   *)
(*                                                                         *)
(* JS objects are functions from key names to values; a key that is not in *)
(* the DOMAIN reads as undefined.  Field names of the relation metadata:   *)
(*   "id"         relatedPrimaryKeyField / junctionPrimaryKeyField         *)
(*   "parent"     reverseJunctionField                                     *)
(*   "item"       junctionField (nested related record, m2m and m2a)       *)
(*   "collection" collectionField (m2a)                                    *)
(*   "sort"       sortField                                                *)
(*   "name"       an ordinary payload field                                *)
(* $index values are zero-based as in the source; sequences are one-based. *)
(***************************************************************************)
EXTENDS Integers, Sequences, FiniteSets, TLC

VARIABLES
  relation,            \* relation.value: [type, sorted]; type "none" is undefined
  itemId,              \* itemId.value: "+" (new item) or a persisted key
  previewQuery,        \* previewQuery.value: [page, limit]
  value,               \* value.value: undefined, an array or a changes object
  fetchedItems,        \* ref: the fetched page
  existingItemCount,   \* ref
  existingSortMax,     \* ref: a JS number or null
  loading,             \* ref
  fetchedSelectItems,  \* ref (useSelected)
  calls,               \* updateFetchedItems invocations awaiting a response
  loads,               \* loadSelectedDisplay invocations awaiting a response
  unexpected,          \* unexpectedError(err) has been called
  unhandled            \* a rejected promise was dropped by its caller

vars == <<relation, itemId, previewQuery, value, fetchedItems, existingItemCount,
          existingSortMax, loading, fetchedSelectItems, calls, loads,
          unexpected, unhandled>>

----------------------------------------------------------------------------
(* Bounds of the model *)

\* most staged entries (create + update + delete) a behaviour accumulates
MaxStaged == 2
\* largest sort value a staged item is given
MaxSort == 4
\* most updateFetchedItems invocations in flight at once
MaxCalls == 1
\* most loadSelectedDisplay requests in flight at once
MaxLoads == 1
\* most updateFetchedItems invocations in flight when the query changes
MaxQueryCalls == 2

----------------------------------------------------------------------------
(* JS values that are not plain numbers *)

Null == [t |-> "null"]
Undefined == [t |-> "undefined"]
NaN == [t |-> "NaN"]
Num(n) == [t |-> "number", n |-> n]
IsNum(v) == v.t = "number"

\* item[key], as a JS value, for a numeric field
Field(item, key) == IF key \in DOMAIN item THEN Num(item[key]) ELSE Undefined

\* a[key] === b[key]
SameField(a, b, key) ==
  IF key \in DOMAIN a /\ key \in DOMAIN b THEN a[key] = b[key]
  ELSE key \notin DOMAIN a /\ key \notin DOMAIN b

\* lodash merge(dst, src): src wins, the nested junction record is merged deeply
Merge(dst, src) ==
  [k \in DOMAIN dst \cup DOMAIN src |->
     IF k \notin DOMAIN src THEN dst[k]
     ELSE IF k = "item" /\ k \in DOMAIN dst THEN src[k] @@ dst[k]
     ELSE src[k]]

\* Array.prototype.findIndex, zero-based, -1 when nothing matches
FindIndex(seq, P(_)) ==
  IF \E i \in 1..Len(seq) : P(seq[i])
  THEN (CHOOSE i \in 1..Len(seq) : P(seq[i]) /\ \A j \in 1..(i-1) : ~P(seq[j])) - 1
  ELSE -1

\* Array.prototype.filter
Filter(seq, P(_)) == SelectSeq(seq, P)

\* Array.prototype.splice(index, 1) for a zero-based index >= 0
Splice(seq, index) ==
  IF index + 1 \in 1..Len(seq)
  THEN SubSeq(seq, 1, index) \o SubSeq(seq, index + 2, Len(seq))
  ELSE seq

\* arr[index] = x for a zero-based index <= arr.length
SetAt(seq, index, x) ==
  IF index + 1 \in 1..Len(seq) THEN [seq EXCEPT ![index + 1] = x]
  ELSE Append(seq, x)

\* lodash clamp
clamp(n, lower, upper) == IF n < lower THEN lower ELSE IF n > upper THEN upper ELSE n

----------------------------------------------------------------------------
(* The bound value and the staged changes *)

EmptyChanges == [create |-> <<>>, update |-> <<>>, delete |-> <<>>]
UndefinedValue == [t |-> "undefined"]
ArrayValue(keys) == [t |-> "array", items |-> keys]
ChangesValue(ch) == [t |-> "changes", create |-> ch.create, update |-> ch.update,
                     delete |-> ch.delete]

\* _value.get
StagedOf(v) ==
  IF v.t = "changes"
  THEN [create |-> v.create, update |-> v.update, delete |-> v.delete]
  ELSE EmptyChanges

HasRelation == relation.type # "none"

getSortMaxStep(max, v) ==
  IF max = Null THEN v
  ELSE IF v = Null THEN max
  ELSE IF IsNum(max) /\ IsNum(v) THEN (IF max.n >= v.n THEN max ELSE v)
  ELSE NaN  \* Math.max with undefined or NaN

RECURSIVE getSortMaxFrom(_, _)
getSortMaxFrom(max, values) ==
  IF values = <<>> THEN max
  ELSE getSortMaxFrom(getSortMaxStep(max, Head(values)), Tail(values))

getSortMax(values) == getSortMaxFrom(Null, values)

isItemSelected(item) == HasRelation /\ "parent" \in DOMAIN item

cleanItem(item) ==
  [k \in DOMAIN item \ {"$type", "$index", "$edits"} |-> item[k]]

getPage(offset, items) ==
  IF previewQuery.limit = -1 THEN items
  ELSE LET start == clamp((previewQuery.page - 1) * previewQuery.limit - offset, 0, Len(items))
           end == clamp(previewQuery.page * previewQuery.limit - offset, 0, Len(items))
       IN SubSeq(items, start + 1, end)

\* items.map((item, index) => ({ ...item, $index: index, $type: type }))
Tagged(items, type) ==
  [i \in 1..Len(items) |-> ("$index" :> (i - 1)) @@ ("$type" :> type) @@ items[i]]

selected(s) ==
  IF ~HasRelation THEN <<>>
  ELSE IF relation.type = "o2m"
  THEN Filter(Tagged(StagedOf(s.value).update, "updated"), isItemSelected)
  ELSE Filter(Tagged(StagedOf(s.value).create, "created"), isItemSelected)

selectedOnPage(s) == getPage(s.existingItemCount, selected(s))

\* a count that adds the selections for every relation type
totalItemCountAlwaysSelected(s) ==
  s.existingItemCount + Len(StagedOf(s.value).create) + Len(selected(s))

totalItemCount(s) ==
  IF relation.type = "o2m"
  THEN s.existingItemCount + Len(StagedOf(s.value).create) + Len(selected(s))
  ELSE s.existingItemCount + Len(StagedOf(s.value).create)

SortsOf(items) == [i \in 1..Len(items) |-> Field(items[i], "sort")]

totalSortMax(s) ==
  IF ~relation.sorted THEN Null
  ELSE IF relation.type = "o2m"
  THEN getSortMax(<<s.existingSortMax>> \o SortsOf(StagedOf(s.value).create)
                  \o SortsOf(selected(s)))
  ELSE getSortMax(<<s.existingSortMax>> \o SortsOf(StagedOf(s.value).create))

NotSelected(item) == "parent" \notin DOMAIN item

createdItems(s) ==
  IF ~HasRelation THEN <<>>
  ELSE IF relation.type = "o2m" THEN StagedOf(s.value).create
  ELSE Filter(StagedOf(s.value).create, NotSelected)


----------------------------------------------------------------------------
(* displayItems *)

\* (a, b) => a[sortField] - b[sortField]; NaN when either value is missing
compare(a, b) ==
  IF "sort" \in DOMAIN a /\ "sort" \in DOMAIN b THEN Num(a["sort"] - b["sort"]) ELSE NaN

\* Array.prototype.sort is stable and reads a NaN from the comparator as +0.
\* x is placed behind the last element it does not sort before.
RECURSIVE InsertSorted(_, _)
InsertSorted(sorted, x) ==
  IF sorted = <<>> THEN <<x>>
  ELSE LET c == compare(x, sorted[Len(sorted)])
       IN IF IsNum(c) /\ c.n < 0
          THEN Append(InsertSorted(SubSeq(sorted, 1, Len(sorted) - 1), x),
                      sorted[Len(sorted)])
          ELSE Append(sorted, x)

RECURSIVE SortItems(_)
SortItems(items) ==
  IF items = <<>> THEN <<>>
  ELSE InsertSorted(SortItems(SubSeq(items, 1, Len(items) - 1)), items[Len(items)])

\* a merge that tags a deleted entry with the position of its staged update
mergeFetchedEditsIndex(s, item) ==
  LET staged == StagedOf(s.value)
      editsIndex == FindIndex(staged.update, LAMBDA edit : SameField(edit, item, "id"))
      deleteIndex == FindIndex(staged.delete,
                               LAMBDA id : "id" \in DOMAIN item /\ id = item["id"])
      updatedItem ==
        IF editsIndex # -1
        THEN Merge(Merge(item, ("$type" :> "updated") @@ ("$index" :> editsIndex)
                               @@ ("$edits" :> editsIndex)),
                   staged.update[editsIndex + 1])
        ELSE item
  IN IF deleteIndex # -1
     THEN Merge(updatedItem, ("$type" :> "deleted") @@ ("$index" :> editsIndex))
     ELSE updatedItem

\* lines 120-144: one entry per fetched item, tagged with its staged edit
mergeFetched(s, item) ==
  LET staged == StagedOf(s.value)
      editsIndex == FindIndex(staged.update, LAMBDA edit : SameField(edit, item, "id"))
      deleteIndex == FindIndex(staged.delete,
                               LAMBDA id : "id" \in DOMAIN item /\ id = item["id"])
      updatedItem ==
        IF editsIndex # -1
        THEN Merge(Merge(item, ("$type" :> "updated") @@ ("$index" :> editsIndex)
                               @@ ("$edits" :> editsIndex)),
                   staged.update[editsIndex + 1])
        ELSE item
  IN IF deleteIndex # -1
     THEN Merge(updatedItem, ("$type" :> "deleted") @@ ("$index" :> deleteIndex))
     ELSE updatedItem

\* lines 147-169: the fetched record of a selected item
matchesSelected(edit, item) ==
  CASE relation.type = "o2m" -> SameField(edit, item, "id")
    [] relation.type = "m2m" -> SameField(edit["item"], item["item"], "id")
    [] relation.type = "m2a" ->
         /\ SameField(edit, item, "collection")
         /\ SameField(edit["item"], item["item"], "id")
    [] OTHER -> FALSE

\* lines 146-173
mergeSelected(s, item) ==
  LET i == FindIndex(s.fetchedSelectItems, LAMBDA edit : matchesSelected(edit, item))
  IN IF i = -1 THEN item ELSE Merge(item, s.fetchedSelectItems[i + 1])

\* lines 120-186: the entries before the final sort
unsortedItems(s) ==
  LET sel == selected(s)
      newItems == getPage(s.existingItemCount + Len(sel), createdItems(s))
  IN [i \in 1..Len(s.fetchedItems) |-> mergeFetched(s, s.fetchedItems[i])]
     \o [i \in 1..Len(sel) |-> mergeSelected(s, sel[i])]
     \o Tagged(newItems, "created")

displayItems(s) ==
  IF ~HasRelation THEN <<>>
  ELSE IF (previewQuery.limit > 0 /\ totalItemCount(s) > previewQuery.limit)
          \/ ~relation.sorted
  THEN unsortedItems(s)
  ELSE SortItems(unsortedItems(s))


----------------------------------------------------------------------------
(* The server: the rows related to a persisted item, and the related       *)
(* collection the selectable records live in.                              *)

WithSort(item, n) == IF relation.sorted THEN ("sort" :> n) @@ item ELSE item

ServerRow(k) ==
  CASE relation.type = "o2m" -> WithSort([id |-> k, name |-> "a"], k)
    [] relation.type = "m2m" -> WithSort([id |-> k, item |-> [id |-> 10 + k], name |-> "a"], k)
    [] OTHER -> WithSort([id |-> k, collection |-> "articles", item |-> [id |-> 10 + k],
                          name |-> "a"], k)

ServerRows == IF itemId = "7" THEN <<ServerRow(1), ServerRow(2)>> ELSE <<>>

\* GET with aggregate count
ServerCount == Len(ServerRows)

\* GET with aggregate max of the sort field
ServerSortMax == getSortMax(SortsOf(ServerRows) \o <<Null>>)

\* GET with page and limit
ServerPage(q) ==
  IF q.limit = -1 THEN ServerRows
  ELSE SubSeq(ServerRows, clamp((q.page - 1) * q.limit, 0, Len(ServerRows)) + 1,
              clamp(q.page * q.limit, 0, Len(ServerRows)))

\* a record of the related collection, as GET with filter _in and limit -1 returns it
RelatedRecord(k) ==
  IF relation.type = "o2m"
  THEN WithSort([id |-> k, name |-> "r", parent |-> "other"], k - 7)
  ELSE [id |-> k, name |-> "r"]

----------------------------------------------------------------------------
(* The reactive store, and the handlers as functions of it *)

Store ==
  [value |-> value, fetchedItems |-> fetchedItems,
   existingItemCount |-> existingItemCount, existingSortMax |-> existingSortMax,
   loading |-> loading, fetchedSelectItems |-> fetchedSelectItems,
   calls |-> calls, loads |-> loads, unexpected |-> unexpected,
   unhandled |-> unhandled]

IsNew(id) == id = "" \/ id = "+"

\* lines 331-335
reset(s) ==
  [s EXCEPT !.value = IF itemId = "+" THEN UndefinedValue ELSE ArrayValue(<<>>),
            !.existingItemCount = 0,
            !.fetchedItems = <<>>]

\* an updateValue that never resets
updateValueWithoutReset(s, staged) == [s EXCEPT !.value = ChangesValue(staged)]

\* lines 337-343, applied to the mutated staged lists
updateValue(s, staged) ==
  LET t == [s EXCEPT !.value = ChangesValue(staged)]
  IN IF staged.create = <<>> /\ staged.update = <<>> /\ staged.delete = <<>>
     THEN reset(t) ELSE t

\* (x || 0) + 1
OrZeroPlusOne(v) == IF IsNum(v) /\ v.n # 0 THEN v.n + 1 ELSE 1

\* lines 223-234.  tracked: pushing onto the staged list invalidates the cached
\* totalSortMax (the list is deep-reactive); otherwise the value computed when
\* the call began is reused for every item of the call.
RECURSIVE pushCreated(_, _, _, _, _)
pushCreated(s, staged, items, tracked, cached) ==
  IF items = <<>> THEN staged
  ELSE LET item == Head(items)
           max == IF tracked THEN totalSortMax([s EXCEPT !.value = ChangesValue(staged)])
                  ELSE cached
           sortedItem == IF relation.sorted /\ "sort" \notin DOMAIN item
                         THEN ("sort" :> OrZeroPlusOne(max)) @@ item
                         ELSE item
       IN pushCreated(s, [staged EXCEPT !.create = Append(@, cleanItem(sortedItem))],
                      Tail(items), tracked, cached)

\* lines 220-236
create(s, items, tracked) ==
  updateValue(s, pushCreated(s, StagedOf(s.value), items, tracked, totalSortMax(s)))

HasIndex(item) == "$type" \in DOMAIN item /\ "$index" \in DOMAIN item

\* lines 241-255
RECURSIVE applyUpdates(_, _)
applyUpdates(staged, items) ==
  IF items = <<>> THEN staged
  ELSE LET item == Head(items)
           next ==
             IF ~HasIndex(item)
             THEN [staged EXCEPT !.update = Append(@, item)]
             ELSE IF item["$type"] = "created"
             THEN [staged EXCEPT !.create = SetAt(@, item["$index"], cleanItem(item))]
             ELSE IF item["$type"] = "updated"
             THEN [staged EXCEPT !.update = SetAt(@, item["$index"], cleanItem(item))]
             ELSE IF item["$type"] = "deleted"
             THEN IF "$edits" \in DOMAIN item
                  THEN [staged EXCEPT !.update = SetAt(@, item["$edits"], cleanItem(item))]
                  ELSE [staged EXCEPT !.update = Append(@, cleanItem(item))]
             ELSE staged
       IN applyUpdates(next, Tail(items))

\* lines 238-257
update(s, items) ==
  IF ~HasRelation THEN s ELSE updateValue(s, applyUpdates(StagedOf(s.value), items))

\* lines 267-281
RECURSIVE applyRemoves(_, _)
applyRemoves(staged, items) ==
  IF items = <<>> THEN staged
  ELSE LET item == Head(items)
           next ==
             IF ~HasIndex(item)
             THEN [staged EXCEPT !.delete = Append(@, item["id"])]
             ELSE IF item["$type"] = "created"
             THEN [staged EXCEPT !.create = Splice(@, item["$index"])]
             ELSE IF item["$type"] = "updated"
             THEN IF isItemSelected(item)
                  THEN [staged EXCEPT !.update = Splice(@, item["$index"])]
                  ELSE [staged EXCEPT !.delete = Append(@, item["id"])]
             ELSE IF item["$type"] = "deleted"
             THEN [staged EXCEPT !.delete = Splice(@, item["$index"])]
             ELSE staged
       IN applyRemoves(next, Tail(items))

\* lines 259-283
remove(s, items) ==
  IF ~HasRelation THEN s ELSE updateValue(s, applyRemoves(StagedOf(s.value), items))

NoCollection == ""

\* entries that leave the reverse junction field out
selectedEntryWithoutParent(id, collection) ==
  CASE relation.type = "o2m" -> [id |-> id]
    [] relation.type = "m2m" -> [item |-> [id |-> id]]
    [] OTHER -> [collection |-> collection, item |-> [id |-> id]]

\* lines 289-315
selectedEntry(id, collection) ==
  CASE relation.type = "o2m" -> [parent |-> itemId, id |-> id]
    [] relation.type = "m2m" -> [parent |-> itemId, item |-> [id |-> id]]
    [] OTHER -> [parent |-> itemId, collection |-> collection, item |-> [id |-> id]]

\* a map callback that accepts a missing collection
selectNeverThrows(ids, collection) == FALSE

\* the map callback throws for an m2a relation without a collection
selectThrows(ids, collection) ==
  HasRelation /\ relation.type = "m2a" /\ collection = NoCollection /\ ids # <<>>

\* lines 285-319
select(s, ids, collection, tracked) ==
  IF ~HasRelation \/ selectThrows(ids, collection) THEN s
  ELSE LET entries == [i \in 1..Len(ids) |-> selectedEntry(ids[i], collection)]
       IN IF relation.type = "o2m" THEN update(s, entries)
          ELSE create(s, entries, tracked)


----------------------------------------------------------------------------
(* The network calls *)

RemoveAt(seq, i) == SubSeq(seq, 1, i - 1) \o SubSeq(seq, i + 1, Len(seq))

\* an updateFetchedItems that asks the server whatever the item is
updateFetchedItemsAlwaysRequests(s) ==
  IF ~HasRelation THEN s
  ELSE [s EXCEPT !.loading = TRUE,
                 !.calls = Append(@, [pc |-> "count", q |-> previewQuery])]

\* lines 346-392: up to the first await
updateFetchedItems(s) ==
  IF ~HasRelation THEN s
  ELSE IF IsNew(itemId)
  THEN [s EXCEPT !.existingItemCount = 0, !.fetchedItems = <<>>]
  ELSE [s EXCEPT !.loading = TRUE,
                 !.calls = Append(@, [pc |-> "count", q |-> previewQuery])]

\* lines 415-419: catch and finally
failFetch(s, i) ==
  [s EXCEPT !.unexpected = TRUE, !.loading = FALSE, !.calls = RemoveAt(@, i)]

\* lines 392-419 and 422-454: the continuation of call i after its pending
\* request settles, up to the next await or the end of the function
resumeFetch(s, i, ok) ==
  LET c == s.calls[i]
  IN IF ~ok THEN failFetch(s, i)
     ELSE IF c.pc = "count"
     THEN LET t == [s EXCEPT !.existingItemCount = ServerCount]
          IN IF itemId # "+"
             THEN [t EXCEPT !.calls[i] =
                     [pc |-> IF relation.sorted THEN "sortmax" ELSE "page",
                      q |-> previewQuery]]
             ELSE [t EXCEPT !.loading = FALSE, !.calls = RemoveAt(@, i)]
     ELSE IF c.pc = "sortmax"
     THEN [s EXCEPT !.existingSortMax = ServerSortMax,
                    !.calls[i] = [pc |-> "page", q |-> previewQuery]]
     ELSE [s EXCEPT !.fetchedItems = ServerPage(c.q), !.loading = FALSE,
                    !.calls = RemoveAt(@, i)]

\* the keys loadSelectedDisplay asks the related collection for
selectedKey(item) ==
  IF relation.type = "o2m" THEN [id |-> item["id"]]
  ELSE IF relation.type = "m2m" THEN [id |-> item["item"]["id"]]
  ELSE [id |-> item["item"]["id"], collection |-> item["collection"]]

\* lines 490-579: up to the await
loadSelectedDisplay(s) ==
  IF ~HasRelation THEN s
  ELSE LET page == selectedOnPage(s)
       IN IF page = <<>> THEN [s EXCEPT !.fetchedSelectItems = <<>>]
          ELSE [s EXCEPT !.loads =
                  Append(@, [i \in 1..Len(page) |-> selectedKey(page[i])])]

\* lines 521, 543-545, 581-589: the response mapped into fetchedSelectItems
selectResponse(keys) ==
  [i \in 1..Len(keys) |->
     IF relation.type = "o2m" THEN RelatedRecord(keys[i].id)
     ELSE IF relation.type = "m2m" THEN [item |-> RelatedRecord(keys[i].id)]
     ELSE [collection |-> keys[i].collection, item |-> RelatedRecord(keys[i].id)]]

\* the continuation of load i; nothing catches a rejection and the watcher
\* callback drops the promise
resumeLoad(s, i, ok) ==
  IF ok
  THEN [s EXCEPT !.fetchedSelectItems = selectResponse(s.loads[i]),
                 !.loads = RemoveAt(@, i)]
  ELSE [s EXCEPT !.unhandled = TRUE, !.loads = RemoveAt(@, i)]

----------------------------------------------------------------------------
(* The watchers, run when the scheduler flushes after a task *)

\* lines 69-78; assigned: value.value was assigned during the task
watchValue(old, s, assigned) ==
  IF assigned /\ s.value.t = "array"
     /\ (old.value.t = "changes" \/ (old.value.t = "array" /\ old.value.items = <<>>))
  THEN updateFetchedItems(s)
  ELSE s

\* lines 476-482
watchSelectedOnPage(old, s) ==
  IF selectedOnPage(s) # selectedOnPage(old) THEN loadSelectedDisplay(s) ELSE s

flush(old, s, assigned) == watchSelectedOnPage(old, watchValue(old, s, assigned))


----------------------------------------------------------------------------
(* Configurations and inputs *)

Relations ==
  {[type |-> "none", sorted |-> FALSE]}
  \cup {[type |-> t, sorted |-> b] : t \in {"o2m", "m2m", "m2a"}, b \in BOOLEAN}

\* no item, a new item, a persisted item
ItemIds == {"", "+", "7"}

Queries == {[page |-> 1, limit |-> -1], [page |-> 1, limit |-> 1], [page |-> 2, limit |-> 1]}

\* items the form hands to create: without and with a sort value
NewItems == {[name |-> "x"], [name |-> "y", sort |-> 1]}

\* keys of records of the related collection that are not related yet
SelectIds == {8, 9}

Collections == {NoCollection, "articles"}

\* the handlers are called with one or two arguments
Arities == 1..2

StagedCount(s) ==
  Len(StagedOf(s.value).create) + Len(StagedOf(s.value).update)
  + Len(StagedOf(s.value).delete)

WithinBounds(s) ==
  /\ StagedCount(s) <= MaxStaged
  /\ \A i \in 1..Len(StagedOf(s.value).create) :
       "sort" \in DOMAIN StagedOf(s.value).create[i]
         => StagedOf(s.value).create[i]["sort"] <= MaxSort
  /\ Len(s.calls) <= (IF Len(calls) > MaxCalls THEN Len(calls) ELSE MaxCalls)
  /\ Len(s.loads) <= MaxLoads

----------------------------------------------------------------------------
(* The state machine *)

Set(s) ==
  /\ value' = s.value
  /\ fetchedItems' = s.fetchedItems
  /\ existingItemCount' = s.existingItemCount
  /\ existingSortMax' = s.existingSortMax
  /\ loading' = s.loading
  /\ fetchedSelectItems' = s.fetchedSelectItems
  /\ calls' = s.calls
  /\ loads' = s.loads
  /\ unexpected' = s.unexpected
  /\ unhandled' = s.unhandled
  /\ UNCHANGED <<relation, itemId, previewQuery>>

\* lines 47-50, 457: the refs as constructed
FreshStore(v) ==
  [value |-> v, fetchedItems |-> <<>>, existingItemCount |-> 0,
   existingSortMax |-> Null, loading |-> FALSE, fetchedSelectItems |-> <<>>,
   calls |-> <<>>, loads |-> <<>>, unexpected |-> FALSE, unhandled |-> FALSE]

\* lines 80 and 481: both immediate watchers have run once
ConstructedStore(v) == loadSelectedDisplay(updateFetchedItems(FreshStore(v)))

InitIn(rels, ids, queries) ==
  /\ relation \in rels
  /\ itemId \in ids
  /\ previewQuery \in queries
  /\ LET s == ConstructedStore(IF IsNew(itemId) THEN UndefinedValue
                               ELSE ArrayValue(<<1, 2>>))
     IN /\ value = s.value
        /\ fetchedItems = s.fetchedItems
        /\ existingItemCount = s.existingItemCount
        /\ existingSortMax = s.existingSortMax
        /\ loading = s.loading
        /\ fetchedSelectItems = s.fetchedSelectItems
        /\ calls = s.calls
        /\ loads = s.loads
        /\ unexpected = s.unexpected
        /\ unhandled = s.unhandled

Init == InitIn(Relations, ItemIds, Queries)

\* whether a push onto the staged list is seen by the cached totalSortMax:
\* never for the object the _value getter builds, either way for the caller's
Tracking == IF value.t = "changes" THEN BOOLEAN ELSE {FALSE}

Create(items, tracked) ==
  LET s == flush(Store, create(Store, items, tracked), TRUE)
  IN /\ WithinBounds(s)
     /\ Set(s)

\* the form edits the payload of a displayed entry
Update(i, name) ==
  LET entry == ("name" :> name) @@ displayItems(Store)[i]
      s == flush(Store, update(Store, <<entry>>), HasRelation)
  IN /\ WithinBounds(s)
     /\ Set(s)

\* positions: one or two distinct positions of displayItems
Remove(positions) ==
  LET shown == displayItems(Store)
      items == [k \in 1..Len(positions) |-> shown[positions[k]]]
      s == flush(Store, remove(Store, items), HasRelation)
  IN /\ WithinBounds(s)
     /\ Set(s)

Select(ids, collection, tracked) ==
  LET s == flush(Store, select(Store, ids, collection, tracked),
                 HasRelation /\ ~selectThrows(ids, collection))
  IN /\ WithinBounds(s)
     /\ Set(s)

\* the pending request of call i settles
FetchSettles(i, ok) ==
  LET s == flush(Store, resumeFetch(Store, i, ok), FALSE)
  IN /\ WithinBounds(s)
     /\ Set(s)

\* the pending request of load i settles
LoadSettles(i, ok) ==
  LET s == flush(Store, resumeLoad(Store, i, ok), FALSE)
  IN /\ WithinBounds(s)
     /\ Set(s)

Handlers ==
  \/ \E a \in NewItems, b \in NewItems, n \in Arities, tracked \in Tracking :
       /\ n = 1 => (b = a /\ ~tracked)
       /\ Create(SubSeq(<<a, b>>, 1, n), tracked)
  \/ \E i \in 1..Len(displayItems(Store)) : Update(i, "e")
  \/ \E i \in 1..Len(displayItems(Store)), j \in 1..Len(displayItems(Store)),
        n \in Arities :
       /\ IF n = 1 THEN i = j ELSE i # j
       /\ Remove(SubSeq(<<i, j>>, 1, n))
  \/ \E a \in SelectIds, b \in SelectIds, n \in Arities, collection \in Collections,
        tracked \in Tracking :
       /\ IF n = 1 THEN a = b /\ ~tracked ELSE a # b
       /\ relation.type = "m2a" \/ collection = NoCollection
       /\ Select(SubSeq(<<a, b>>, 1, n), collection, tracked)

Network(outcomes) ==
  \/ \E i \in 1..Len(calls), ok \in outcomes : FetchSettles(i, ok)
  \/ \E i \in 1..Len(loads), ok \in outcomes : LoadSettles(i, ok)

Next == Handlers \/ Network({TRUE})

Spec == Init /\ [][Next]_vars

\* the same layer on a persisted item (o2m with a sort field, m2m and m2a
\* without), where a request may also be rejected
InitNet ==
  InitIn({r \in Relations : r.type # "none" /\ (r.sorted <=> r.type = "o2m")},
         {"7"}, {[page |-> 1, limit |-> -1]})

NextNet == Handlers \/ Network(BOOLEAN)

SpecNet == InitNet /\ [][NextNet]_vars


\* select([]): the selection drawer is confirmed with nothing chosen
SelectNone(collection) ==
  LET s == flush(Store, select(Store, <<>>, collection, FALSE), HasRelation)
  IN /\ HasRelation
     /\ WithinBounds(s)
     /\ Set(s)

\* two handlers run in one task, before the scheduler flushes the watchers:
\* an item is created and the entry shown for it is removed again
CreateThenRemove(item) ==
  LET created == create(Store, <<item>>, FALSE)
      shown == displayItems(created)
      s == flush(Store, remove(created, <<shown[Len(shown)]>>), TRUE)
  IN /\ HasRelation
     /\ shown # <<>>
     /\ "$type" \in DOMAIN shown[Len(shown)]
     /\ shown[Len(shown)]["$type"] = "created"
     /\ WithinBounds(s)
     /\ Set(s)

Tasks ==
  \/ \E collection \in Collections : SelectNone(collection)
  \/ \E item \in NewItems : CreateThenRemove(item)

\* a persisted item whose handlers are also called with no argument, or two
\* in one task
InitTask ==
  InitIn({r \in Relations : r.type # "none" /\ (r.sorted <=> r.type = "o2m")},
         {"7"}, {[page |-> 1, limit |-> -1], [page |-> 1, limit |-> 1]})

NextTask == Handlers \/ Tasks \/ Network({TRUE})

SpecTask == InitTask /\ [][NextTask]_vars

\* previewQuery changes (the user pages or changes the limit) and the watcher
\* of line 80 calls updateFetchedItems.  Nothing is staged, so selectedOnPage
\* stays empty and its watcher does not run.
ChangeQuery(q) ==
  LET s == updateFetchedItems(Store)
  IN /\ q # previewQuery
     /\ selected(Store) = <<>>
     /\ Len(s.calls) <= MaxQueryCalls
     /\ previewQuery' = q
     /\ value' = s.value
     /\ fetchedItems' = s.fetchedItems
     /\ existingItemCount' = s.existingItemCount
     /\ existingSortMax' = s.existingSortMax
     /\ loading' = s.loading
     /\ fetchedSelectItems' = s.fetchedSelectItems
     /\ calls' = s.calls
     /\ loads' = s.loads
     /\ unexpected' = s.unexpected
     /\ unhandled' = s.unhandled
     /\ UNCHANGED <<relation, itemId>>

\* a persisted item whose query changes while requests are pending
InitQuery ==
  InitIn({r \in Relations : r.type # "none" /\ (r.sorted <=> r.type = "o2m")},
         {"7"}, Queries)

NextQuery ==
  \/ \E q \in Queries : ChangeQuery(q)
  \/ \E i \in 1..Len(calls) : FetchSettles(i, TRUE)

SpecQuery == InitQuery /\ [][NextQuery]_vars

----------------------------------------------------------------------------
(* Properties *)

Staged == StagedOf(value)
Shown == displayItems(Store)

Positions(seq, P(_)) == {i \in 1..Len(seq) : P(seq[i])}

\* the entries of displayItems that carry the primary key of a fetched item
EntriesOf(item) == {i \in 1..Len(Shown) : "id" \in DOMAIN Shown[i] /\ Shown[i]["id"] = item["id"]}

FirstPosition(seq, P(_)) == CHOOSE i \in Positions(seq, P) : \A j \in Positions(seq, P) : i <= j

\* what C1 says of the entry e shown for the fetched item
FetchedEntryAsClaimed(item, e) ==
  LET deletes == Positions(Staged.delete, LAMBDA id : id = item["id"])
      edits == Positions(Staged.update, LAMBDA edit : SameField(edit, item, "id"))
  IN IF deletes # {}
     THEN /\ e["$type"] = "deleted"
          /\ e["$index"] = FirstPosition(Staged.delete, LAMBDA id : id = item["id"]) - 1
     ELSE IF edits # {}
     THEN LET edit == Staged.update[FirstPosition(Staged.update,
                                      LAMBDA u : SameField(u, item, "id"))]
          IN /\ e["$type"] = "updated"
             /\ e["$index"] = FirstPosition(Staged.update,
                                            LAMBDA u : SameField(u, item, "id")) - 1
             /\ \A k \in DOMAIN edit : k \in DOMAIN e /\ e[k] = edit[k]
             /\ \A k \in DOMAIN item \ DOMAIN edit : k \in DOMAIN e /\ e[k] = item[k]
     ELSE e = item

\* C1: for a defined relation displayItems holds exactly one entry per fetched
\* item: tagged 'deleted' with its position in the delete list when its key is
\* staged for deletion, else tagged 'updated' with the position of its staged
\* update and the staged values over the fetched ones, else the fetched item
\* itself, untagged.
C1_OneEntryPerFetchedItem ==
  HasRelation =>
    \A i \in 1..Len(fetchedItems) :
      /\ Cardinality(EntriesOf(fetchedItems[i])) = 1
      /\ \A k \in EntriesOf(fetchedItems[i]) : FetchedEntryAsClaimed(fetchedItems[i], Shown[k])

\* one fetched item is shown deleted and another with its staged update
C1_Witness ==
  /\ HasRelation
  /\ Len(fetchedItems) = 2
  /\ \E i \in 1..Len(Shown) :
       /\ "$type" \in DOMAIN Shown[i] /\ Shown[i]["$type"] = "deleted"
       /\ Shown[i]["$index"] = 0
  /\ \E i \in 1..Len(Shown) :
       /\ "$type" \in DOMAIN Shown[i] /\ Shown[i]["$type"] = "updated"
       /\ Shown[i]["$index"] = 0
       /\ "parent" \notin DOMAIN Shown[i]
       /\ Shown[i]["name"] = "e"

\* C2: with a positive limit and a fetched page of at most limit items,
\* displayItems holds at most limit entries.
C2_AtMostLimitEntries ==
  (HasRelation /\ previewQuery.limit > 0 /\ Len(fetchedItems) <= previewQuery.limit)
    => Len(Shown) <= previewQuery.limit

\* staged newly created items: the create list without the selections
StagedCreatedCount ==
  IF relation.type = "o2m" THEN Len(Staged.create)
  ELSE Cardinality(Positions(Staged.create, NotSelected))

\* staged selections: the entries select stages, which carry the parent key
StagedSelectionCount ==
  IF relation.type = "o2m"
  THEN Cardinality(Positions(Staged.update, LAMBDA e : "parent" \in DOMAIN e))
  ELSE Cardinality(Positions(Staged.create, LAMBDA e : "parent" \in DOMAIN e))

\* C3: for every relation type totalItemCount is existingItemCount plus the
\* staged created items plus the staged selections, each counted once; staged
\* updates of persisted items and staged deletes do not count.
C3_TotalItemCount ==
  HasRelation =>
    totalItemCount(Store) = existingItemCount + StagedCreatedCount + StagedSelectionCount

\* a created item and a selection are staged for a persisted item
C3_Witness ==
  /\ HasRelation /\ relation.type # "o2m"
  /\ existingItemCount > 0
  /\ StagedCreatedCount = 1
  /\ StagedSelectionCount = 1


\* the entries of a sequence
Range(seq) == {seq[i] : i \in 1..Len(seq)}

\* C4: with a sort field, an item created without a sort value is staged with
\* a sort value above the persisted maximum and above that of every item staged
\* before it, those of the same call included: the maximum plus one, or 1.
C4_CreatedSortsLast ==
  \A a \in NewItems, b \in NewItems, n \in Arities, tracked \in Tracking :
    LET items == SubSeq(<<a, b>>, 1, n)
        after == StagedOf(create(Store, items, tracked).value)
        base == Len(Staged.create)
    IN (HasRelation /\ relation.sorted) =>
         \A k \in 1..n :
           "sort" \notin DOMAIN items[k] =>
             LET given == after.create[base + k]["sort"]
             IN /\ IsNum(existingSortMax) => given > existingSortMax.n
                /\ \A j \in 1..(base + k - 1) :
                     "sort" \in DOMAIN after.create[j] => given > after.create[j]["sort"]
                /\ relation.type = "o2m" =>
                     \A e \in Range(selected(Store)) :
                       "sort" \in DOMAIN e => given > e["sort"]
                /\ (k = 1 /\ totalSortMax(Store) = Null) => given = 1
                /\ (k = 1 /\ IsNum(totalSortMax(Store))) => given = totalSortMax(Store).n + 1

\* no entry with a sort value is followed, however far behind, by one with a
\* smaller sort value
NonDecreasingSort(items) ==
  \A i \in 1..Len(items), j \in 1..Len(items) :
    (i < j /\ "sort" \in DOMAIN items[i] /\ "sort" \in DOMAIN items[j])
      => items[i]["sort"] <= items[j]["sort"]

\* C5: with a sort field and everything on one page displayItems is ordered by
\* non-decreasing sort value across fetched, selected and created entries;
\* otherwise the order is fetched items, selections, created items.
C5_OrderedBySort ==
  HasRelation =>
    IF relation.sorted
       /\ (previewQuery.limit <= 0 \/ totalItemCount(Store) <= previewQuery.limit)
    THEN NonDecreasingSort(Shown)
    ELSE Shown = unsortedItems(Store)

\* C6: every network call is covered by the try/catch: a failure is handed to
\* unexpectedError, no rejection escapes, and loading is false once no
\* updateFetchedItems call is pending.
C6_FailuresAreCaught ==
  /\ ~unhandled
  /\ calls = <<>> => ~loading

\* the entries select(ids, collection) is to stage
SelectionsAsClaimed(ids, collection) ==
  [k \in 1..Len(ids) |->
     CASE relation.type = "o2m" -> [parent |-> itemId, id |-> ids[k]]
       [] relation.type = "m2m" -> [parent |-> itemId, item |-> [id |-> ids[k]]]
       [] OTHER -> [parent |-> itemId, collection |-> collection,
                    item |-> [id |-> ids[k]]]]

\* the entry but for a sort value create may have given it
Unsorted(e) == [k \in DOMAIN e \ {"sort"} |-> e[k]]

\* C7: select(ids) stages one entry per id carrying the reverse junction field
\* set to itemId, in the update list for o2m and in the create list for m2m and
\* m2a; each is reported by selected and none by createdItems.
C7_SelectStagesSelections ==
  \A a \in SelectIds, b \in SelectIds, n \in Arities, collection \in Collections,
     tracked \in Tracking :
    LET ids == SubSeq(<<a, b>>, 1, n)
        t == select(Store, ids, collection, tracked)
        after == StagedOf(t.value)
        wanted == SelectionsAsClaimed(ids, collection)
        into == IF relation.type = "o2m" THEN after.update ELSE after.create
        from == IF relation.type = "o2m" THEN Staged.update ELSE Staged.create
    IN (HasRelation /\ ~selectThrows(ids, collection)) =>
         /\ Len(into) = Len(from) + n
         /\ SubSeq(into, 1, Len(from)) = from
         /\ \A k \in 1..n : Unsorted(into[Len(from) + k]) = wanted[k]
         /\ relation.type = "o2m" => after.create = Staged.create
         /\ relation.type # "o2m" => after.update = Staged.update
         /\ after.delete = Staged.delete
         /\ \A k \in 1..n :
              /\ \E e \in Range(selected(t)) :
                   /\ e["$index"] = Len(from) + k - 1
                   /\ cleanItem(e) = into[Len(from) + k]
              /\ relation.type # "o2m" => into[Len(from) + k] \notin Range(createdItems(t))

\* two selections are staged and reported for an m2a relation
C7_Witness ==
  /\ relation.type = "m2a"
  /\ Len(selected(Store)) = 2
  /\ \A e \in Range(selected(Store)) : e["parent"] = itemId /\ e["collection"] = "articles"
  /\ createdItems(Store) = <<>>

\* the entry e shows the staged item
Shows(e, item) ==
  /\ ("parent" \in DOMAIN e) = ("parent" \in DOMAIN item)
  /\ \A k \in DOMAIN item :
       /\ k \in DOMAIN e
       /\ IF k = "item" THEN e[k]["id"] = item[k]["id"]
          ELSE k = "parent" \/ e[k] = item[k]

\* C8: the $index of every 'created' entry of displayItems is the position of
\* that item in the staged create list.
C8_CreatedIndexIsStagedPosition ==
  \A i \in 1..Len(Shown) :
    ("$type" \in DOMAIN Shown[i] /\ Shown[i]["$type"] = "created") =>
      /\ Shown[i]["$index"] + 1 \in 1..Len(Staged.create)
      /\ Shows(Shown[i], Staged.create[Shown[i]["$index"] + 1])

\* seq without the elements at the positions in gone
RECURSIVE Without(_, _)
Without(seq, gone) ==
  IF seq = <<>> THEN <<>>
  ELSE IF Len(seq) \in gone THEN Without(SubSeq(seq, 1, Len(seq) - 1), gone)
  ELSE Append(Without(SubSeq(seq, 1, Len(seq) - 1), gone), seq[Len(seq)])

IsTagged(e, type) == "$type" \in DOMAIN e /\ e["$type"] = type

\* the positions the items of the given kind denote
Denoted(items, kind(_)) == {items[k]["$index"] + 1 : k \in Positions(items, kind)}

\* the staged lists remove(...items) is to leave
RemovedAsClaimed(items) ==
  LET keys == SelectSeq(items, LAMBDA e : ~HasIndex(e)
                                          \/ (IsTagged(e, "updated") /\ ~isItemSelected(e)))
  IN [create |-> Without(Staged.create, Denoted(items, LAMBDA e : IsTagged(e, "created"))),
      update |-> Without(Staged.update,
                         Denoted(items, LAMBDA e : IsTagged(e, "updated") /\ isItemSelected(e))),
      delete |-> Without(Staged.delete, Denoted(items, LAMBDA e : IsTagged(e, "deleted")))
                 \o [k \in 1..Len(keys) |-> keys[k]["id"]]]

\* C9: remove called with two display items removes exactly the staged entries
\* the two denote and leaves every other staged entry as it was.
C9_RemoveSeveral ==
  \A i \in 1..Len(Shown), j \in 1..Len(Shown) :
    (HasRelation /\ i # j) =>
      StagedOf(remove(Store, <<Shown[i], Shown[j]>>).value)
        = RemovedAsClaimed(<<Shown[i], Shown[j]>>)

\* the positions in the create list of the items createdItems keeps
CreatedPositions ==
  LET kept == IF relation.type = "o2m" THEN 1..Len(Staged.create)
              ELSE Positions(Staged.create, NotSelected)
  IN [k \in 1..Cardinality(kept) |->
        CHOOSE p \in kept : Cardinality({q \in kept : q < p}) = k - 1]

\* those of the created items on the page, in the order of the entries
\* displayItems appends last
ShownCreatedPositions ==
  getPage(existingItemCount + Len(selected(Store)), CreatedPositions)

ShownCreated ==
  LET all == unsortedItems(Store)
  IN SubSeq(all, Len(all) - Len(ShownCreatedPositions) + 1, Len(all))

\* remove on an untagged fetched entry stages its key for deletion, and
\* remove on the 'deleted' entry then shown restores the staged lists
RemoveTogglesFetchedItem ==
  \A i \in 1..Len(Shown) :
    (HasRelation /\ "$type" \notin DOMAIN Shown[i]) =>
      LET t == remove(Store, <<Shown[i]>>)
          again == {e \in Range(displayItems(t)) :
                      "id" \in DOMAIN e /\ e["id"] = Shown[i]["id"]}
      IN /\ StagedOf(t.value) = [Staged EXCEPT !.delete = Append(@, Shown[i]["id"])]
         /\ again # {}
         /\ \A e \in again :
              /\ IsTagged(e, "deleted")
              /\ StagedOf(remove(t, <<e>>).value) = Staged

\* removing a shown created item drops that item from the create list only
RemoveDropsCreatedItem ==
  HasRelation =>
    \A k \in 1..Len(ShownCreated) :
      StagedOf(remove(Store, <<ShownCreated[k]>>).value)
        = [Staged EXCEPT !.create = Splice(@, ShownCreatedPositions[k] - 1)]

\* C10: remove toggles a persisted item (the second call on the 'deleted'
\* entry restores the create, update and delete lists), and removing a
\* 'created' entry only drops it from the create list.
C10_RemoveIsAToggle == RemoveTogglesFetchedItem /\ RemoveDropsCreatedItem

\* the value reset assigns
ResetValue == IF itemId = "+" THEN UndefinedValue ELSE ArrayValue(<<>>)

\* a step that leaves no empty changes object behind, and that resets when it
\* empties the staged lists
EmptiedMeansReset ==
  /\ value'.t = "changes" => StagedOf(value') # EmptyChanges
  /\ (value.t = "changes" /\ value'.t # "changes") =>
       /\ value' = ResetValue
       /\ existingItemCount' = 0
       /\ fetchedItems' = <<>>

\* C11: after a create, update, remove or select the bound value is never a
\* changes object with three empty lists: an action that empties the staged
\* lists leaves the value reset to [] (undefined for itemId '+'), with
\* existingItemCount 0 and fetchedItems [].
C11_NoEmptyChanges == [][EmptiedMeansReset]_vars

\* the staged lists of a persisted item were emptied and the value reset to []
C11_Witness ==
  /\ HasRelation /\ itemId = "7"
  /\ value = ArrayValue(<<>>)
  /\ existingItemCount = 0
  /\ fetchedItems = <<>>

\* C12: for a persisted item, once an action has emptied the staged lists and
\* reset fetchedItems and existingItemCount, the value watcher has called
\* updateFetchedItems: when no call is pending any more, fetchedItems and
\* existingItemCount hold the server's page and count again, whatever the
\* value was before and however many actions ran in the task.
C12_ResetRefetches ==
  (HasRelation /\ ~IsNew(itemId) /\ value.t = "array" /\ calls = <<>>) =>
    /\ fetchedItems = ServerPage(previewQuery)
    /\ existingItemCount = ServerCount

\* C13: when previewQuery changes while an updateFetchedItems call is pending,
\* then once every request has settled fetchedItems and existingItemCount hold
\* the results of the latest query, in whatever order the responses arrive.
C13_LatestQueryWins ==
  (HasRelation /\ ~IsNew(itemId) /\ calls = <<>>) =>
    /\ existingItemCount = ServerCount
    /\ fetchedItems = ServerPage(previewQuery)

\* C14: for an item that is not persisted (itemId empty or '+')
\* updateFetchedItems issues no request and leaves existingItemCount 0 and
\* fetchedItems [], so displayItems holds staged selections and staged created
\* items only.
C14_NewItemFetchesNothing ==
  IsNew(itemId) =>
    /\ calls = <<>>
    /\ updateFetchedItems(Store).calls = <<>>
    /\ updateFetchedItems(Store).existingItemCount = 0
    /\ updateFetchedItems(Store).fetchedItems = <<>>
    /\ existingItemCount = 0
    /\ fetchedItems = <<>>
    /\ HasRelation => Len(Shown) = Len(selected(Store)) + Len(ShownCreatedPositions)
    /\ \A e \in Range(Shown) :
         \/ isItemSelected(e) /\ (IsTagged(e, "updated") \/ IsTagged(e, "created"))
         \/ IsTagged(e, "created") /\ cleanItem(e) \in Range(Staged.create)

\* a new item shows one staged selection and one staged created item
C14_Witness ==
  /\ HasRelation /\ IsNew(itemId)
  /\ Len(Shown) = 2
  /\ \E e \in Range(Shown) : isItemSelected(e)
  /\ \E e \in Range(Shown) : ~isItemSelected(e) /\ IsTagged(e, "created")

\* C15: select on an m2a relation with ids and no collection raises an error
\* and stages nothing: the staged lists, the bound value and every ref are as
\* before the call, and no watcher runs.
C15_SelectWithoutCollectionThrows ==
  \A a \in SelectIds, b \in SelectIds, n \in Arities, tracked \in BOOLEAN :
    LET ids == SubSeq(<<a, b>>, 1, n)
        t == select(Store, ids, NoCollection, tracked)
    IN relation.type = "m2a" =>
         /\ selectThrows(ids, NoCollection)
         /\ t = Store
         /\ StagedOf(t.value) = Staged
         /\ flush(Store, t, FALSE) = Store

\* an m2a relation with staged changes, where select can be called without a
\* collection
C15_Witness ==
  /\ relation.type = "m2a"
  /\ value.t = "changes"
  /\ Len(Staged.create) > 0
  /\ selectThrows(<<8>>, NoCollection)

====
